---- MODULE Spec2Model ----
(***************************************************************************)
(* The Barossa Council development-application scraper (scraper.ts and its *)
(* compiled variants): one run of main() against the ePathway portal, and  *)
(* the sqlite table [data] that the runs leave behind.                     *)
(*                                                                         *)
(* Text is modelled as a sequence of one-character strings, so that trim,  *)
(* the whitespace-collapsing replace, the regular expressions and the date *)
(* parse and format are computed character by character as the code does.  *)
(***************************************************************************)
EXTENDS Integers, Sequences, FiniteSets, TLC

\* ------------------------------------------------------------------ bounds
\* Number of times the scraper is launched against the same data.sqlite.
MaxRuns == 2
\* Number of table rows the search lists, over all of its result pages.
MaxRows == 2
\* Number of midnights the wall clock may pass during the behaviour.
MaxDay == 1

\* Most script elements on a default page.
MaxScripts == 2

\* ------------------------------------------------------- program constants
\* "enforce a hard limit of 50 pages" in the do-while condition.
PageLimit == 50
\* tableCells.length >= 4
MinCells == 4

DevelopmentApplicationsDefaultUrl == "https://epayments.barossa.sa.gov.au/ePathway/Production/Web/default.aspx"
CommentUrl == "mailto:barossa@barossa.sa.gov.au"
NoDescription ==
  << "N","o"," ","d","e","s","c","r","i","p","t","i","o","n"," ",
     "p","r","o","v","i","d","e","d" >>

\* ------------------------------------------------------------------- text
Digits == << "0","1","2","3","4","5","6","7","8","9" >>

IsDigit(c) == \E i \in 1..10 : Digits[i] = c

DigitVal(c) == (CHOOSE i \in 1..10 : Digits[i] = c) - 1

\* The characters the model's texts use that JavaScript's \s and trim() treat
\* as white space.
IsSpace(c) == c \in { " ", "\t", "\n" }

Drop(s, n) == SubSeq(s, n + 1, Len(s))

RECURSIVE TrimStart(_)
TrimStart(s) ==
  IF s # << >> /\ IsSpace(s[1]) THEN TrimStart(Tail(s)) ELSE s

RECURSIVE TrimEnd(_)
TrimEnd(s) ==
  IF s # << >> /\ IsSpace(s[Len(s)]) THEN TrimEnd(SubSeq(s, 1, Len(s) - 1)) ELSE s

\* String.prototype.trim
Trim(s) == TrimEnd(TrimStart(s))

\* Length of the run of white space that starts s.
RECURSIVE SpaceRun(_)
SpaceRun(s) ==
  IF s # << >> /\ IsSpace(s[1]) THEN 1 + SpaceRun(Tail(s)) ELSE 0

\* text.replace(/\s\s+/g, " "): every maximal run of two or more white-space
\* characters becomes one blank; a single white-space character is kept.
RECURSIVE CollapseRuns(_)
CollapseRuns(s) ==
  IF s = << >> THEN << >>
  ELSE IF SpaceRun(s) >= 2 THEN << " " >> \o CollapseRuns(Drop(s, SpaceRun(s)))
  ELSE << s[1] >> \o CollapseRuns(Tail(s))

\* /[0-9]*.*/.test(text): a pattern that matches every text.
RegexTestStar(s) == TRUE

\* /[0-9]+.*/.test(text): the pattern is not anchored, so it matches as soon
\* as one digit occurs anywhere ([0-9]+ there, .* possibly empty after it).
RegexTest(s) == \E i \in 1..Len(s) : IsDigit(s[i])

\* text.match(/[0-9]+$/): the digits that end the text; << >> stands for the
\* null that match() returns when the text does not end in a digit.
RECURSIVE TrailingDigits(_)
TrailingDigits(s) ==
  IF s # << >> /\ IsDigit(s[Len(s)])
    THEN TrailingDigits(SubSeq(s, 1, Len(s) - 1)) \o << s[Len(s)] >>
    ELSE << >>

\* Number(digits)
RECURSIVE ToNumber(_)
ToNumber(ds) ==
  IF ds = << >> THEN 0
  ELSE 10 * ToNumber(SubSeq(ds, 1, Len(ds) - 1)) + DigitVal(ds[Len(ds)])

Max(a, b) == IF a >= b THEN a ELSE b


\* ------------------------------------------------------------------ dates
IsLeapYear(y) == (y % 4 = 0 /\ y % 100 # 0) \/ y % 400 = 0

DaysInMonth(y, m) ==
  IF m = 2 THEN (IF IsLeapYear(y) THEN 29 ELSE 28)
  ELSE IF m \in { 4, 6, 9, 11 } THEN 30 ELSE 31

\* Number of characters the token D takes: one or two digits, two when it can.
DayLen(s) ==
  IF Len(s) >= 2 /\ IsDigit(s[1]) /\ IsDigit(s[2]) THEN 2
  ELSE IF Len(s) >= 1 /\ IsDigit(s[1]) THEN 1 ELSE 0

AllDigits(s) == \A i \in 1..Len(s) : IsDigit(s[i])

\* The text has the shape of "D/MM/YYYY" read strictly: one or two digits, a
\* slash, two digits, a slash, four digits, and nothing before, between or
\* after them.
StrictShape(s) ==
  LET n == DayLen(s) IN
    /\ n > 0
    /\ Len(s) = n + 8
    /\ s[n + 1] = "/"
    /\ AllDigits(SubSeq(s, n + 2, n + 3))
    /\ s[n + 4] = "/"
    /\ AllDigits(SubSeq(s, n + 5, n + 8))

\* moment(text, "D/MM/YYYY", true): the fields read, and whether isValid().
ParseDate(s) ==
  IF ~StrictShape(s) THEN [ valid |-> FALSE, y |-> 0, m |-> 0, d |-> 0 ]
  ELSE
    LET n == DayLen(s)
        d == ToNumber(SubSeq(s, 1, n))
        m == ToNumber(SubSeq(s, n + 2, n + 3))
        y == ToNumber(SubSeq(s, n + 5, n + 8))
    IN [ valid |-> m \in 1..12 /\ d >= 1 /\ d <= DaysInMonth(y, m),
         y |-> y, m |-> m, d |-> d ]

\* The decimal digits of n, padded with zeros on the left to width w.
RECURSIVE Pad(_, _)
Pad(n, w) ==
  IF w = 0 THEN << >> ELSE Pad(n \div 10, w - 1) \o << Digits[(n % 10) + 1] >>

\* date.format("YYYY-M-D"): no zero padding of month and day.
FormatUnpadded(date) ==
  Pad(date.y, 4) \o << "-" >> \o Pad(date.m, IF date.m < 10 THEN 1 ELSE 2)
    \o << "-" >> \o Pad(date.d, IF date.d < 10 THEN 1 ELSE 2)

\* date.format("YYYY-MM-DD")
FormatISO(date) ==
  Pad(date.y, 4) \o << "-" >> \o Pad(date.m, 2) \o << "-" >> \o Pad(date.d, 2)

\* The calendar day after date: the wall clock passing midnight.
NextDay(date) ==
  IF date.d < DaysInMonth(date.y, date.m)
    THEN [ date EXCEPT !.d = date.d + 1 ]
  ELSE IF date.m < 12 THEN [ date EXCEPT !.m = date.m + 1, !.d = 1 ]
  ELSE [ y |-> date.y + 1, m |-> 1, d |-> 1 ]

\* The date on which the first run is launched.
StartDate == [ y |-> 2024, m |-> 2, d |-> 28 ]

RECURSIVE DayAt(_)
DayAt(k) == IF k = 0 THEN StartDate ELSE NextDay(DayAt(k - 1))

\* ------------------------------------------------------ what the portal serves
\* Cell texts of the result table, as $(cell).text() returns them.
RefFence == << "1","0","/","2","0","2","4","/","1" >>
RefFencePadded == << "\n"," ","1","0","/","2","0","2","4","/","1"," " >>
RefLetters == << " ","D","A"," ","1","2","/","2","0","2","4" >>
RefShed == << "1","1","/","2","0","2","4" >>
RefDeck == << "1","2","/","2","0","2","4","\n" >>
RefHeading == << "N","u","m","b","e","r" >>
DateJan == << "3","/","0","1","/","2","0","2","4" >>
DateLeap == << "2","9","/","0","2","/","2","0","2","4" >>
DateNoSuchDay == << "3","1","/","0","2","/","2","0","2","4" >>
DateShortMonth == << "3","/","1","/","2","0","2","4" >>
DescFence == << "F","e","n","c","e" >>
DescShed == << " ","S","h","e","d"," " >>
DescBlank == << " " >>
LotText == << "L","o","t"," ","4" >>
\* Text of the fifth td next to "Formatted Property Address" on a detail page.
AddrSmith == << "1","2"," "," ","S","m","i","t","h"," "," ","S","t" >>
AddrHill == << " ","9"," ","H","i","l","l","\t","R","d"," ","\n" >>
AddrBlank == << " ","\t"," " >>

Detail(text) == [ found |-> TRUE, text |-> text ]

\* A detail page on which the address cell is not found.
NoDetail == [ found |-> FALSE, text |-> << >> ]

\* The rows the council's register can list, in the order the portal sorts
\* them: the td texts of a table row, and the detail page behind the link of
\* its first cell.
Catalogue ==
  << [ cells |-> << RefFence, DateJan, << >>, DescFence >>, detail |-> Detail(AddrSmith) ],
     [ cells |-> << RefLetters, DateLeap, LotText, DescBlank >>, detail |-> Detail(AddrHill) ],
     [ cells |-> << RefFencePadded, DateLeap, LotText, DescShed, LotText >>, detail |-> Detail(AddrHill) ],
     [ cells |-> << RefShed, DateNoSuchDay, << >>, DescShed >>, detail |-> Detail(AddrSmith) ],
     [ cells |-> << RefShed, DateShortMonth, LotText, DescFence >>, detail |-> Detail(AddrSmith) ],
     [ cells |-> << RefHeading, DateJan, << >>, DescFence >>, detail |-> Detail(AddrSmith) ],
     [ cells |-> << RefFence, DateJan, DescFence >>, detail |-> Detail(AddrSmith) ],
     [ cells |-> << RefDeck, DateJan, LotText, DescFence >>, detail |-> NoDetail ],
     [ cells |-> << RefDeck, DateJan, << >>, DescFence >>, detail |-> Detail(AddrBlank) ] >>

\* Text of the page-number label of the first result page; absent when the
\* element is missing, and .text() of a missing element is the empty string.
LabelPrefix == << "P","a","g","e"," ","1"," ","o","f"," " >>

LabelPool ==
  { [ present |-> FALSE, text |-> << >> ],
    [ present |-> TRUE, text |-> LabelPrefix ],
    [ present |-> TRUE, text |-> LabelPrefix \o << "0" >> ],
    [ present |-> TRUE, text |-> LabelPrefix \o << "1" >> ],
    [ present |-> TRUE, text |-> LabelPrefix \o << "2" >> ],
    [ present |-> TRUE, text |-> LabelPrefix \o << "0","3" >> ] }

\* The label of a portal that is scraped again and again.
RerunLabelPool == { [ present |-> TRUE, text |-> LabelPrefix \o << "2" >> ] }

\* A label that reports one page more than the limit of 50: "Page 1 of 51".
LongLabelPool == { [ present |-> TRUE, text |-> LabelPrefix \o Pad(PageLimit + 1, 2) ] }

LabelText(label) == IF label.present THEN label.text ELSE << >>

\* What a search lists: at most MaxRows rows of the catalogue, in its order,
\* each named by its position in the catalogue.
Listings ==
  { l \in UNION { [ 1..n -> 1..Len(Catalogue) ] : n \in 0..MaxRows } :
      \A i \in 1..(Len(l) - 1) : l[i] < l[i + 1] }

\* Texts of the script elements of the default page, as $(script).text()
\* returns them.
\* A script without the marker.
ScriptPlain ==
  << "v","a","r"," ","a",";" >>
\* The marker, the token ab and a single quote.
ScriptToken ==
  << "x",".","a","s","p","x","?","j","s","=","a","b","'" >>
\* A quote before the marker; the token g ends at a double quote.
ScriptQuoted ==
  << "'",".","a","s","p","x","?","j","s","=","g","\"","h","'" >>
\* The marker with a quote right behind it.
ScriptNoToken ==
  << ".","a","s","p","x","?","j","s","=","\"" >>
\* The marker with no quote behind it.
ScriptOpen ==
  << ".","a","s","p","x","?","j","s","=","c","d" >>
\* The marker twice: a quote right behind the first, the token ef behind the second.
ScriptTwice ==
  << ".","a","s","p","x","?","j","s","=","'",".","a","s","p","x","?","j",
     "s","=","e","f","\"" >>
\* A script element with a src attribute and no text.
ScriptEmpty == << >>

BlockPool ==
  { ScriptPlain, ScriptToken, ScriptQuoted, ScriptNoToken, ScriptOpen,
    ScriptTwice, ScriptEmpty }

\* The default pages: at most MaxScripts script elements, in document order.
ScriptPages == UNION { [ 1..n -> BlockPool ] : n \in 0..MaxScripts }

\* The default page of a portal without a token, and of one with a token.
PlainPages == { << ScriptPlain >>, << ScriptPlain, ScriptToken >> }

\* What parseToken returns when no script qualifies.
Null == << "null" >>

Marker == << ".","a","s","p","x","?","j","s","=" >>

\* text.indexOf(pattern, from): the first position, counted from 0 and not
\* before from, at which the pattern occurs in the text; -1 when there is none.
IndexOf(text, pattern, from) ==
  LET at == { k \in from..(Len(text) - Len(pattern)) :
                SubSeq(text, k + 1, k + Len(pattern)) = pattern }
  IN IF at = { } THEN -1 ELSE CHOOSE k \in at : \A j \in at : k <= j

\* text.replace(/"/g, "'")
ReplaceQuotes(text) ==
  [ i \in 1..Len(text) |-> IF text[i] = "\"" THEN "'" ELSE text[i] ]

\* The body of parseToken's loop with the test endIndex >= startIndex.
ScriptTokenOrEmpty(text) ==
  LET found == IndexOf(text, Marker, 0)
      startIndex == found + Len(Marker)
      endIndex == IndexOf(ReplaceQuotes(text), << "'" >>, startIndex)
  IN IF found >= 0 /\ endIndex >= startIndex
       THEN SubSeq(text, startIndex + 1, endIndex)
       ELSE Null

\* The body of parseToken's loop for one script: the token it returns, or
\* Null when the loop goes on to the next script.
ScriptTokenOf(text) ==
  LET found == IndexOf(text, Marker, 0)
      startIndex == found + Len(Marker)
      endIndex == IndexOf(ReplaceQuotes(text), << "'" >>, startIndex)
  IN IF found >= 0 /\ endIndex > startIndex
       THEN SubSeq(text, startIndex + 1, endIndex)
       ELSE Null

\* parseToken: the scripts in document order, the first token found.
RECURSIVE ParseTokenFrom(_, _)
ParseTokenFrom(scripts, i) ==
  IF i > Len(scripts) THEN Null
  ELSE IF ScriptTokenOf(scripts[i]) # Null THEN ScriptTokenOf(scripts[i])
  ELSE ParseTokenFrom(scripts, i + 1)

ParseToken(scripts) == ParseTokenFrom(scripts, 1)

\* parseToken of every default page.
TokenOf == [ scripts \in ScriptPages |-> ParseToken(scripts) ]

\* Which of the hidden inputs __EVENTVALIDATION and __VIEWSTATE the pages of a
\* portal carry.
HiddenBoth == { "both" }

HiddenAny == { "both", "ev", "vs", "none" }

\* A portal: the label of its first result page, the rows its search lists,
\* the number of rows it puts on a result page, the scripts of its default
\* page, and the hidden inputs of its pages.
PortalSetWith(labels, hiddens) ==
  UNION { [ label : labels, listing : { l }, pageSize : 1..Max(1, Len(l)),
            scripts : PlainPages, hidden : hiddens ] :
            l \in Listings }

\* One portal of two result pages, the second row of which is rejected, with
\* every default page.
PortalsToken ==
  [ label : RerunLabelPool, listing : { << 1, 4 >> }, pageSize : { 1 },
    scripts : ScriptPages, hidden : HiddenBoth ]

\* The portals whose pages carry both hidden inputs.
PortalSet(labels) == PortalSetWith(labels, HiddenBoth)

\* ------------------------------------------------------------------ state
VARIABLES
  variant,      \* "replace" (scraper.ts) or "ignore" (second build in scraper.js)
  portal,       \* what the council's portal serves: label, listing, page size
  store,        \* the rows of table [data] in data.sqlite, in rowid order
  tableExists,  \* table [data] has been created
  createPending, \* the create-table statement is issued and has not completed
  run,          \* number of the current launch of the scraper
  pc,           \* position of main()
  today,        \* number of midnights passed when the clock was last read
  tokens,       \* << eventValidation, viewState >> of the last page loaded
  page,         \* $("tr") of the result page loaded last (catalogue positions)
  pageNumber,   \* let pageNumber
  pageCount,    \* let pageCount
  rowIdx,       \* position of the for loop over the rows of the page
  pending,      \* the record handed to the insertRow call in progress
  reqLog,       \* the HTTP requests of this run, in order
  pageLog,      \* the page numbers of "Parsing page ..." of this run
  handed,       \* the records handed to insertRow in this run, with their row
  console,      \* what insertRow and the last line of the program printed
  prevStore,    \* the table as the previous run left it
  prevDone      \* the previous run ended with "Complete."

vars ==
  << variant, portal, store, tableExists, createPending, run, pc, today, tokens,
     page, pageNumber, pageCount, rowIdx, pending, reqLog, pageLog, handed, console,
     prevStore, prevDone >>

\* What $("input[name=...]").val() gives when the page has no such input.
Undefined == << "undefined" >>

NoTokens == << Undefined, Undefined >>

NoRecord == [ applicationNumber |-> << >> ]

\* The values read from the hidden inputs of the n-th response of a run.
TokensOf(n) ==
  << IF portal.hidden \in { "both", "ev" } THEN << "ev", n >> ELSE Undefined,
     IF portal.hidden \in { "both", "vs" } THEN << "vs", n >> ELSE Undefined >>

\* let token = parseToken(body)
Token == TokenOf[portal.scripts]

\* The cookie jar main() creates with request.jar(), once per launch, named
\* by the launch.
Jar == run

\* A request whose event target names the page before the one it asks for.
RequestTargetBehind(kind, n, r, sent) ==
  [ kind |-> kind, page |-> n, target |-> IF kind = "page" THEN n - 1 ELSE 0,
    row |-> r, eventValidation |-> sent[1], viewState |-> sent[2], jar |-> Jar,
    token |-> IF kind = "token" THEN Token ELSE Null ]

\* A request that retrieveFullAddress issues with a jar of its own (jar 0).
RequestOwnJar(kind, n, r, sent) ==
  [ kind |-> kind, page |-> n, target |-> IF kind = "page" THEN n ELSE 0,
    row |-> r, eventValidation |-> sent[1], viewState |-> sent[2],
    jar |-> IF kind = "detail" THEN 0 ELSE Jar,
    token |-> IF kind = "token" THEN Token ELSE Null ]

\* An HTTP request: its kind, the result page it is about (for a page-indexed
\* POST the PageNumber of its URL and the number that ends its __EVENTTARGET,
\* for a detail page the catalogue position of its row), the hidden fields of
\* its form, the cookie jar it is issued with, and for the token page the
\* token of its query string.
Request(kind, n, r, sent) ==
  [ kind |-> kind, page |-> n, target |-> IF kind = "page" THEN n ELSE 0,
    row |-> r, eventValidation |-> sent[1], viewState |-> sent[2], jar |-> Jar,
    token |-> IF kind = "token" THEN Token ELSE Null ]

Min(a, b) == IF a <= b THEN a ELSE b

\* The rows of result page k as the portal serves it; a page past the last
\* row of the listing has no rows.
PageAt(k) ==
  SubSeq(portal.listing, (k - 1) * portal.pageSize + 1,
         Min(k * portal.pageSize, Len(portal.listing)))

\* The table row at position i of the page loaded last.
RowAt(i) == Catalogue[page[i]]

InitOver(portals) ==
  /\ variant \in { "replace", "ignore" }
  /\ portal \in portals
  /\ store = << >>
  /\ tableExists = FALSE
  /\ createPending = FALSE
  /\ run = 1
  /\ pc = "start"
  /\ today = 0
  /\ tokens = NoTokens
  /\ page = << >>
  /\ pageNumber = 0
  /\ pageCount = 0
  /\ rowIdx = 0
  /\ pending = NoRecord
  /\ reqLog = << >>
  /\ pageLog = << >>
  /\ handed = << >>
  /\ console = << >>
  /\ prevStore = << >>
  /\ prevDone = FALSE

InitWith(labels) == InitOver(PortalSet(labels))

Init == InitWith(LabelPool)

\* The same program against a portal whose label reports 51 pages.
InitLong == InitWith(LongLabelPool)

\* The program launched repeatedly against an unchanged portal.
InitRerun == InitWith(RerunLabelPool)

\* The program against portals whose pages lack hidden inputs.
InitBare == InitOver(PortalSetWith(RerunLabelPool, HiddenAny))

\* The program against every default page.
InitToken == InitOver(PortalsToken)

\* --------------------------------------------------------------- database
Columns ==
  IF variant = "ignore"
    THEN { "council_reference", "address", "description", "info_url",
           "comment_url", "date_scraped", "date_received" }
    ELSE { "council_reference", "address", "description", "info_url",
           "comment_url", "date_scraped", "date_received",
           "on_notice_from", "on_notice_to" }

\* The values bound to the statement's parameters, by column.
RowOf(rec) ==
  LET all == [ council_reference |-> rec.applicationNumber,
               address |-> rec.address,
               description |-> rec.description,
               info_url |-> rec.informationUrl,
               comment_url |-> rec.commentUrl,
               date_scraped |-> rec.scrapeDate,
               date_received |-> rec.receivedDate,
               on_notice_from |-> "NULL",
               on_notice_to |-> "NULL" ]
  IN [ c \in Columns |-> all[c] ]

HasKey(table, key) == \E i \in 1..Len(table) : table[i].council_reference = key

WithoutKey(table, key) ==
  SelectSeq(table, LAMBDA r : r.council_reference # key)

\* An insert into a table that has no primary key.
UpsertNoKey(table, row) == Append(table, row)

\* "insert or replace" whatever the variant.
UpsertReplaceOnly(table, row) == Append(WithoutKey(table, row.council_reference), row)

\* "insert or ignore" whatever the variant.
UpsertIgnoreOnly(table, row) ==
  IF HasKey(table, row.council_reference) THEN table ELSE Append(table, row)

\* "insert or replace into [data]" / "insert or ignore into [data]" under the
\* primary key on council_reference.
Upsert(table, row) ==
  IF variant = "ignore"
    THEN IF HasKey(table, row.council_reference) THEN table ELSE Append(table, row)
    ELSE Append(WithoutKey(table, row.council_reference), row)

\* this.changes of the statement.
Changes(table, row) ==
  IF variant = "ignore" /\ HasKey(table, row.council_reference) THEN 0 ELSE 1

\* ------------------------------------------------------------- extraction
\* Math.max(1, Number(pageCountText.match(/[0-9]+$/)[0])) || 1, for a text
\* that match() does not answer with null.
PageCountOf(text) ==
  LET n == Max(1, ToNumber(TrailingDigits(text))) IN IF n = 0 THEN 1 ELSE n

\* The if of the row loop without the test of the received date.
AcceptsAnyDate(row) ==
  /\ Len(row.cells) >= MinCells
  /\ RegexTest(Trim(row.cells[1]))

\* The if of the row loop with tableCells.length > 4.
AcceptsMoreThanFourCells(row) ==
  /\ Len(row.cells) > MinCells
  /\ RegexTest(Trim(row.cells[1]))
  /\ ParseDate(Trim(row.cells[2])).valid

\* The if of the row loop: at least four cells, a digit in the application
\* number and a valid received date.
Accepts(row) ==
  /\ Len(row.cells) >= MinCells
  /\ RegexTest(Trim(row.cells[1]))
  /\ ParseDate(Trim(row.cells[2])).valid

\* retrieveFullAddress without the trim().
ExtractAddressNoTrim(detail) ==
  CollapseRuns(IF detail.found THEN detail.text ELSE << >>)

\* retrieveFullAddress: the text of the address cell, runs of white space
\* collapsed, ends trimmed.
ExtractAddress(detail) ==
  Trim(CollapseRuns(IF detail.found THEN detail.text ELSE << >>))

\* The record of a build that takes the address from the third cell of the
\* row when that cell has text, and from the detail page otherwise.
MakeRecordInlineAddress(row, address, k) ==
  LET description == Trim(row.cells[4])
      receivedDate == ParseDate(Trim(row.cells[2]))
  IN [ applicationNumber |-> Trim(row.cells[1]),
       address |-> IF Trim(row.cells[3]) # << >> THEN Trim(row.cells[3]) ELSE address,
       description |-> IF description = << >> THEN NoDescription ELSE description,
       informationUrl |-> DevelopmentApplicationsDefaultUrl,
       commentUrl |-> CommentUrl,
       scrapeDate |-> FormatISO(DayAt(k)),
       receivedDate |-> IF receivedDate.valid THEN FormatISO(receivedDate) ELSE << >> ]

\* The record of a build that stores the trimmed cell as it is, empty or not.
MakeRecordRawDescription(row, address, k) ==
  LET receivedDate == ParseDate(Trim(row.cells[2]))
  IN [ applicationNumber |-> Trim(row.cells[1]),
       address |-> address,
       description |-> Trim(row.cells[4]),
       informationUrl |-> DevelopmentApplicationsDefaultUrl,
       commentUrl |-> CommentUrl,
       scrapeDate |-> FormatISO(DayAt(k)),
       receivedDate |-> IF receivedDate.valid THEN FormatISO(receivedDate) ELSE << >> ]

\* The record of a build that reads the clock once, when it is launched.
MakeRecordDateOfLaunch(row, address, k) ==
  LET description == Trim(row.cells[4])
      receivedDate == ParseDate(Trim(row.cells[2]))
  IN [ applicationNumber |-> Trim(row.cells[1]),
       address |-> address,
       description |-> IF description = << >> THEN NoDescription ELSE description,
       informationUrl |-> DevelopmentApplicationsDefaultUrl,
       commentUrl |-> CommentUrl,
       scrapeDate |-> FormatISO(StartDate),
       receivedDate |-> IF receivedDate.valid THEN FormatISO(receivedDate) ELSE << >> ]

\* The object literal handed to insertRow, built on day number k.
MakeRecord(row, address, k) ==
  LET description == Trim(row.cells[4])
      receivedDate == ParseDate(Trim(row.cells[2]))
  IN [ applicationNumber |-> Trim(row.cells[1]),
       address |-> address,
       description |-> IF description = << >> THEN NoDescription ELSE description,
       informationUrl |-> DevelopmentApplicationsDefaultUrl,
       commentUrl |-> CommentUrl,
       scrapeDate |-> FormatISO(DayAt(k)),
       receivedDate |-> IF receivedDate.valid THEN FormatISO(receivedDate) ELSE << >> ]

\* if (pageNumber >= pageCount) break;
ShouldBreakEarly(number, count) == number >= count

\* if (pageNumber > pageCount) break;
ShouldBreak(number, count) == number > count

\* A do-while condition that stops the loop at the limit of 50 pages.
LoopConditionLimit(number, count) == number <= count /\ number < PageLimit

\* The condition of the do-while; pageCount is a number, never null.
LoopCondition(number, count) == number <= count \/ number >= PageLimit

\* ---------------------------------------------------------------- actions
\* The rows of the catalogue that pass the if of the row loop.
AcceptedItems == { i \in 1..Len(Catalogue) : Accepts(Catalogue[i]) }

\* The if of the row loop for the row at position i of the page loaded last.
AcceptsAt(i) == page[i] \in AcceptedItems

RowPending == pc = "rows" /\ rowIdx <= Len(page)

\* The request main() is waiting for, if any.
Awaited ==
  CASE pc = "getDefault" -> << Request("default", 0, 0, NoTokens) >>
    [] pc = "getToken" -> << Request("token", 0, 0, NoTokens) >>
    [] pc = "getLists" -> << Request("lists", 0, 0, NoTokens) >>
    [] pc = "postSelect" -> << Request("select", 0, 0, tokens) >>
    [] pc = "postTab" -> << Request("tab", 0, 0, tokens) >>
    [] pc = "postSearch" -> << Request("search", 0, 0, tokens) >>
    [] pc = "postPage" -> << Request("page", pageNumber, 0, tokens) >>
    [] RowPending /\ AcceptsAt(rowIdx) ->
         << Request("detail", pageNumber - 1, page[rowIdx], NoTokens) >>
    [] OTHER -> << >>

\* The process is launched again on the data.sqlite the last run left; the
\* last process has ended, which it does once no database work is pending.
StartRun ==
  /\ pc \in { "done", "failed" }
  /\ ~createPending
  /\ run < MaxRuns
  /\ run' = run + 1
  /\ pc' = "start"
  /\ prevStore' = store
  /\ prevDone' = (pc = "done")
  /\ tokens' = NoTokens
  /\ page' = << >>
  /\ pageNumber' = 0
  /\ pageCount' = 0
  /\ rowIdx' = 0
  /\ pending' = NoRecord
  /\ reqLog' = << >>
  /\ pageLog' = << >>
  /\ handed' = << >>
  /\ console' = << >>
  /\ UNCHANGED << variant, portal, createPending, store, tableExists, today >>

\* An initializeDatabase that opens the database and issues no statement.
InitializeDatabaseNoCreate ==
  /\ pc = "start"
  /\ pc' = "getDefault"
  /\ UNCHANGED << variant, portal, createPending, store, tableExists, run, today,
                  tokens, page, pageNumber, pageCount, rowIdx, pending, reqLog,
                  pageLog, handed, console, prevStore, prevDone >>

\* initializeDatabase: database.run("create table if not exists [data] (...)")
\* queues the statement and resolve(database) follows at once, in the same
\* callback and without a completion callback on run(): main() goes on to
\* its first request while the statement is pending.
InitializeDatabase ==
  /\ pc = "start"
  /\ createPending' = TRUE
  /\ pc' = "getDefault"
  /\ UNCHANGED << variant, portal, store, tableExists, run, today, tokens, page, pageNumber,
                  pageCount, rowIdx, pending, reqLog, pageLog, handed, console,
                  prevStore, prevDone >>

\* The create-table statement completes: the table is there, and a table
\* that was there before keeps its rows ("if not exists").
CreateTableCompletes ==
  /\ createPending
  /\ createPending' = FALSE
  /\ tableExists' = TRUE
  /\ UNCHANGED << variant, portal, store, run, pc, today, tokens, page,
                  pageNumber, pageCount, rowIdx, pending, reqLog, pageLog,
                  handed, console, prevStore, prevDone >>

\* A navigation step that raises when the page lacks one of the hidden inputs.
NavigateStrict(from, next, extract) ==
  /\ pc = from
  /\ reqLog' = reqLog \o Awaited
  /\ IF extract /\ portal.hidden # "both"
       THEN /\ pc' = "failed"
            /\ console' = Append(console, "TypeError")
            /\ UNCHANGED tokens
       ELSE /\ tokens' = IF extract THEN TokensOf(Len(reqLog) + 1) ELSE tokens
            /\ pc' = next
            /\ UNCHANGED console
  /\ UNCHANGED << variant, portal, createPending, store, tableExists, run, today,
                  page, pageNumber, pageCount, rowIdx, pending, pageLog, handed,
                  prevStore, prevDone >>

\* A navigation step: the awaited response arrives, its hidden fields are
\* extracted, and main() goes on to position next.
Navigate(from, next, extract) ==
  /\ pc = from
  /\ reqLog' = reqLog \o Awaited
  /\ tokens' = IF extract THEN TokensOf(Len(reqLog) + 1) ELSE tokens
  /\ pc' = next
  /\ UNCHANGED << variant, portal, createPending, store, tableExists, run, today, page,
                  pageNumber, pageCount, rowIdx, pending, pageLog, handed,
                  console, prevStore, prevDone >>

\* A bootstrap that asks for the token page whatever parseToken answers.
GetDefaultAlwaysToken == Navigate("getDefault", "getToken", TRUE)

\* GET default.aspx; parseToken finds a "js=" token in the page or answers
\* null, and the token page is asked for in the first case only.
GetDefault ==
  Navigate("getDefault", IF Token # Null THEN "getToken" ELSE "getLists", TRUE)

\* GET default.aspx?js=<token>; the response is not looked at.
GetToken == Navigate("getToken", "getLists", FALSE)

\* The enquiry lists page followed by the tab switch, the selection left out.
GetListsSkipSelect == Navigate("getLists", "postTab", TRUE)

GetLists == Navigate("getLists", "postSelect", TRUE)

PostSelect == Navigate("postSelect", "postTab", TRUE)

PostTab == Navigate("postTab", "postSearch", TRUE)

\* The date search answers with the first result page; the page count is
\* read from its label and the loop is entered. match() answers null for a
\* label that does not end in a digit, and null[0] throws a TypeError.
PostSearch ==
  /\ pc = "postSearch"
  /\ reqLog' = reqLog \o Awaited
  /\ tokens' = TokensOf(Len(reqLog) + 1)
  /\ page' = PageAt(1)
  /\ IF TrailingDigits(LabelText(portal.label)) = << >>
       THEN /\ pc' = "failed"
            /\ console' = Append(console, "TypeError")
            /\ UNCHANGED << pageNumber, pageCount, rowIdx, pageLog >>
       ELSE /\ pageCount' = PageCountOf(LabelText(portal.label))
            /\ pageLog' = << 1 >>
            /\ pageNumber' = 2
            /\ rowIdx' = 1
            /\ pc' = "rows"
            /\ UNCHANGED console
  /\ UNCHANGED << variant, portal, createPending, store, tableExists, run, today, pending,
                  handed, prevStore, prevDone >>

\* A row loop that stays on a row the if rejects.
SkipRowStuck ==
  /\ RowPending
  /\ ~AcceptsAt(rowIdx)
  /\ rowIdx' = rowIdx
  /\ UNCHANGED << variant, portal, createPending, store, tableExists, run, pc,
                  today, tokens, page, pageNumber, pageCount, pending, reqLog,
                  pageLog, handed, console, prevStore, prevDone >>

\* A row the if rejects: the loop goes on to the next row.
SkipRow ==
  /\ RowPending
  /\ ~AcceptsAt(rowIdx)
  /\ rowIdx' = rowIdx + 1
  /\ UNCHANGED << variant, portal, createPending, store, tableExists, run, pc, today, tokens,
                  page, pageNumber, pageCount, pending, reqLog, pageLog, handed,
                  console, prevStore, prevDone >>

\* A row loop that calls insertRow without await and goes on to the next row.
RetrieveFullAddressNoAwait ==
  /\ RowPending
  /\ AcceptsAt(rowIdx)
  /\ reqLog' = reqLog \o Awaited
  /\ rowIdx' = rowIdx + 1
  /\ LET address == ExtractAddress(RowAt(rowIdx).detail) IN
       IF address # << >>
         THEN \E k \in today..MaxDay :
                /\ today' = k
                /\ handed' = Append(handed, [ rec |-> MakeRecord(RowAt(rowIdx), address, k),
                                              page |-> pageNumber - 1,
                                              row |-> rowIdx,
                                              item |-> page[rowIdx] ])
         ELSE UNCHANGED << today, handed >>
  /\ UNCHANGED << variant, portal, createPending, store, tableExists, run, pc,
                  tokens, page, pageNumber, pageCount, pending, pageLog, console,
                  prevStore, prevDone >>

\* A retrieveFullAddress after which main() reads the hidden inputs of the
\* detail page into eventValidation and viewState.
RetrieveFullAddressReadsTokens ==
  /\ RowPending
  /\ AcceptsAt(rowIdx)
  /\ reqLog' = reqLog \o Awaited
  /\ tokens' = TokensOf(Len(reqLog) + 1)
  /\ LET address == ExtractAddress(RowAt(rowIdx).detail) IN
       IF address # << >>
         THEN \E k \in today..MaxDay :
                /\ today' = k
                /\ pending' = MakeRecord(RowAt(rowIdx), address, k)
                /\ handed' = Append(handed, [ rec |-> MakeRecord(RowAt(rowIdx), address, k),
                                              page |-> pageNumber - 1,
                                              row |-> rowIdx,
                                              item |-> page[rowIdx] ])
                /\ pc' = "insert"
                /\ UNCHANGED rowIdx
         ELSE /\ rowIdx' = rowIdx + 1
              /\ UNCHANGED << today, pending, handed, pc >>
  /\ UNCHANGED << variant, portal, createPending, store, tableExists, run, page,
                  pageNumber, pageCount, pageLog, console, prevStore, prevDone >>

\* An accepted row: its detail page arrives; with a non-empty address the
\* record is built (the clock is read for scrapeDate) and handed to insertRow.
RetrieveFullAddress ==
  /\ RowPending
  /\ AcceptsAt(rowIdx)
  /\ reqLog' = reqLog \o Awaited
  /\ LET address == ExtractAddress(RowAt(rowIdx).detail) IN
       IF address # << >>
         THEN \E k \in today..MaxDay :
                /\ today' = k
                /\ pending' = MakeRecord(RowAt(rowIdx), address, k)
                /\ handed' = Append(handed, [ rec |-> MakeRecord(RowAt(rowIdx), address, k),
                                              page |-> pageNumber - 1,
                                              row |-> rowIdx,
                                              item |-> page[rowIdx] ])
                /\ pc' = "insert"
                /\ UNCHANGED rowIdx
         ELSE /\ rowIdx' = rowIdx + 1
              /\ UNCHANGED << today, pending, handed, pc >>
  /\ UNCHANGED << variant, portal, createPending, store, tableExists, run, tokens, page,
                  pageNumber, pageCount, pageLog, console, prevStore, prevDone >>

\* The statement of insertRow has run: the row is written under the policy
\* of the variant and one line is logged. The database object runs the
\* statements of its connection in the order they were issued, so the insert
\* runs after the create-table statement has completed.
InsertRow ==
  /\ pc = "insert"
  /\ ~createPending
  /\ tableExists
  /\ store' = Upsert(store, RowOf(pending))
  /\ console' = Append(console, IF Changes(store, RowOf(pending)) > 0
                                  THEN "Inserted" ELSE "Skipped")
  /\ pending' = NoRecord
  /\ rowIdx' = rowIdx + 1
  /\ pc' = "rows"
  /\ UNCHANGED << variant, portal, createPending, tableExists, run, today, tokens, page,
                  pageNumber, pageCount, reqLog, pageLog, handed, prevStore,
                  prevDone >>

\* An insertRow that logs the error of the statement and resolves.
InsertFailsContinue ==
  /\ pc = "insert"
  /\ ~createPending
  /\ console' = Append(console, "error")
  /\ pending' = NoRecord
  /\ rowIdx' = rowIdx + 1
  /\ pc' = "rows"
  /\ UNCHANGED << variant, portal, createPending, store, tableExists, run, today,
                  tokens, page, pageNumber, pageCount, reqLog, pageLog, handed,
                  prevStore, prevDone >>

\* The statement fails: the error is logged and the promise rejects.
InsertFails ==
  /\ pc = "insert"
  /\ ~createPending
  /\ console' = Append(console, "error")
  /\ pc' = "failed"
  /\ UNCHANGED << variant, portal, createPending, store, tableExists, run, today, tokens, page,
                  pageNumber, pageCount, rowIdx, pending, reqLog, pageLog,
                  handed, prevStore, prevDone >>

\* Number of statements insertRow has prepared in this run: database.prepare
\* is the first thing every call does.
Prepared == Len(handed)

\* Number of statements finalized in this run: sqlStatement.finalize() is
\* called in the branch of the callback that logs "Inserted" or "Skipped",
\* right after the line is logged, and nowhere else.
Finalized == Len(SelectSeq(console, LAMBDA l : l \in { "Inserted", "Skipped" }))

\* The rows of the page are exhausted: break, or go for the next page.
EndOfPage ==
  /\ pc = "rows"
  /\ rowIdx > Len(page)
  /\ IF ShouldBreak(pageNumber, pageCount)
       THEN /\ pc' = "done"
            /\ console' = Append(console, "Complete.")
       ELSE /\ pc' = "postPage"
            /\ UNCHANGED console
  /\ UNCHANGED << variant, portal, createPending, store, tableExists, run, today, tokens, page,
                  pageNumber, pageCount, rowIdx, pending, reqLog, pageLog,
                  handed, prevStore, prevDone >>

\* A page-indexed POST after which the hidden fields are not read again.
PostPageStaleTokens ==
  /\ pc = "postPage"
  /\ reqLog' = reqLog \o Awaited
  /\ page' = PageAt(pageNumber)
  /\ IF LoopCondition(pageNumber, pageCount)
       THEN /\ pageLog' = Append(pageLog, pageNumber)
            /\ pageNumber' = pageNumber + 1
            /\ rowIdx' = 1
            /\ pc' = "rows"
            /\ UNCHANGED console
       ELSE /\ pc' = "done"
            /\ console' = Append(console, "Complete.")
            /\ UNCHANGED << pageLog, pageNumber, rowIdx >>
  /\ UNCHANGED << variant, portal, createPending, store, tableExists, run, today,
                  tokens, pageCount, pending, handed, prevStore, prevDone >>

\* A page-indexed POST after which the page count is read again, from the
\* label of the page that arrived, which reports the pages the listing fills.
PostPageReadsCount ==
  /\ pc = "postPage"
  /\ reqLog' = reqLog \o Awaited
  /\ tokens' = TokensOf(Len(reqLog) + 1)
  /\ page' = PageAt(pageNumber)
  /\ pageCount' = Max(1, (Len(portal.listing) + portal.pageSize - 1) \div portal.pageSize)
  /\ IF LoopCondition(pageNumber, pageCount')
       THEN /\ pageLog' = Append(pageLog, pageNumber)
            /\ pageNumber' = pageNumber + 1
            /\ rowIdx' = 1
            /\ pc' = "rows"
            /\ UNCHANGED console
       ELSE /\ pc' = "done"
            /\ console' = Append(console, "Complete.")
            /\ UNCHANGED << pageLog, pageNumber, rowIdx >>
  /\ UNCHANGED << variant, portal, createPending, store, tableExists, run, today,
                  pending, handed, prevStore, prevDone >>

\* The page-indexed POST is answered; the do-while condition is evaluated and
\* the next turn of the loop starts with "Parsing page" and pageNumber++.
PostPage ==
  /\ pc = "postPage"
  /\ reqLog' = reqLog \o Awaited
  /\ tokens' = TokensOf(Len(reqLog) + 1)
  /\ page' = PageAt(pageNumber)
  /\ IF LoopCondition(pageNumber, pageCount)
       THEN /\ pageLog' = Append(pageLog, pageNumber)
            /\ pageNumber' = pageNumber + 1
            /\ rowIdx' = 1
            /\ pc' = "rows"
            /\ UNCHANGED console
       ELSE /\ pc' = "done"
            /\ console' = Append(console, "Complete.")
            /\ UNCHANGED << pageLog, pageNumber, rowIdx >>
  /\ UNCHANGED << variant, portal, createPending, store, tableExists, run, today, pageCount,
                  pending, handed, prevStore, prevDone >>

\* A failed request that is logged and issued once more.
RequestFailsRetry ==
  /\ Awaited # << >>
  /\ reqLog' = reqLog \o Awaited
  /\ console' = Append(console, "error")
  /\ UNCHANGED << variant, portal, createPending, store, tableExists, run, pc,
                  today, tokens, page, pageNumber, pageCount, rowIdx, pending,
                  pageLog, handed, prevStore, prevDone >>

\* The awaited request fails: main() rejects and the error is printed.
RequestFails ==
  /\ Awaited # << >>
  /\ reqLog' = reqLog \o Awaited
  /\ console' = Append(console, "error")
  /\ pc' = "failed"
  /\ UNCHANGED << variant, portal, createPending, store, tableExists, run, today, tokens, page,
                  pageNumber, pageCount, rowIdx, pending, pageLog, handed,
                  prevStore, prevDone >>

\* main() has settled and no database work is pending: the process ends.
Terminated == pc \in { "done", "failed" } /\ ~createPending

\* The exit code of a process in which the rejection of main() goes unhandled.
ExitCodeUnhandled == IF ~Terminated THEN -1 ELSE IF pc = "failed" THEN 1 ELSE 0

\* The exit code of the process, -1 while it runs. The last line of the
\* program handles both outcomes of main(): then() prints "Complete.", catch()
\* prints the error and returns, so the promise chain is fulfilled either way
\* and node ends with code 0 when nothing is left to do.
ExitCode == IF ~Terminated THEN -1 ELSE 0

Next ==
  \/ RequestFails
  \/ InsertFails
  \/ InitializeDatabase
  \/ CreateTableCompletes
  \/ EndOfPage
  \/ GetDefault
  \/ GetToken
  \/ GetLists
  \/ PostSelect
  \/ PostTab
  \/ PostSearch
  \/ SkipRow
  \/ RetrieveFullAddress
  \/ InsertRow
  \/ PostPage

Spec == Init /\ [][Next]_vars

SpecLong == InitLong /\ [][Next]_vars

SpecBare == InitBare /\ [][Next]_vars

SpecToken == InitToken /\ [][Next]_vars

\* Every request and every statement completes, with an answer or an error.
SpecLive == Init /\ [][Next]_vars /\ WF_vars(Next)

NextRerun == Next \/ StartRun

SpecRerun == InitRerun /\ [][NextRerun]_vars

\* ------------------------------------------------- vocabulary of the claims
Range(f) == { f[i] : i \in 1..Len(f) }

\* The page fetches of the run: the date search, which answers with the
\* first result page, and the page-indexed POSTs.
PageFetches == SelectSeq(reqLog, LAMBDA r : r.kind \in { "search", "page" })

PagePosts == SelectSeq(reqLog, LAMBDA r : r.kind = "page")

DetailRequests == SelectSeq(reqLog, LAMBDA r : r.kind = "detail")

\* The page count the label reports.
Reported == ToNumber(TrailingDigits(LabelText(portal.label)))

Keys(table) == { table[i].council_reference : i \in 1..Len(table) }

NoSpaceAtEnds(t) == t = << >> \/ (~IsSpace(t[1]) /\ ~IsSpace(t[Len(t)]))

NoSpaceRun(t) == \A i \in 1..(Len(t) - 1) : ~(IsSpace(t[i]) /\ IsSpace(t[i + 1]))

AllSpace(t) == \A i \in 1..Len(t) : IsSpace(t[i])

\* t is s without the white space around it.
IsTrimOf(t, s) ==
  /\ NoSpaceAtEnds(t)
  /\ \E i \in 0..Len(s) :
       /\ i + Len(t) <= Len(s)
       /\ SubSeq(s, i + 1, i + Len(t)) = t
       /\ AllSpace(SubSeq(s, 1, i))
       /\ AllSpace(SubSeq(s, i + Len(t) + 1, Len(s)))

\* The words of a text: its maximal runs of characters that are not white space.
RECURSIVE Words(_)
Words(t) ==
  IF t = << >> THEN << >>
  ELSE IF IsSpace(t[1]) THEN Words(Tail(t))
  ELSE LET n == CHOOSE k \in 1..Len(t) :
                  /\ \A i \in 1..k : ~IsSpace(t[i])
                  /\ (k = Len(t) \/ IsSpace(t[k + 1]))
       IN << SubSeq(t, 1, n) >> \o Words(Drop(t, n))

\* t is the text of a calendar date in the form YYYY-MM-DD.
IsISODate(t) ==
  /\ Len(t) = 10
  /\ t[5] = "-" /\ t[8] = "-"
  /\ \A i \in { 1, 2, 3, 4, 6, 7, 9, 10 } : IsDigit(t[i])
  /\ ToNumber(SubSeq(t, 6, 7)) \in 1..12
  /\ ToNumber(SubSeq(t, 9, 10)) >= 1
  /\ ToNumber(SubSeq(t, 9, 10))
       <= DaysInMonth(ToNumber(SubSeq(t, 1, 4)), ToNumber(SubSeq(t, 6, 7)))

\* The days of an ISO date text, for comparing two of them.
IsoOrdinal(t) ==
  ToNumber(SubSeq(t, 1, 4)) * 10000 + ToNumber(SubSeq(t, 6, 7)) * 100
    + ToNumber(SubSeq(t, 9, 10))

\* The received dates of the catalogue that are calendar dates, as the
\* claims expect them stored.
IsoJan == << "2","0","2","4","-","0","1","-","0","3" >>
IsoLeap == << "2","0","2","4","-","0","2","-","2","9" >>
SmithNormal == << "1","2"," ","S","m","i","t","h"," ","S","t" >>

\* ------------------------------------------------------------------ claims

\* C1: in one run of main(), whatever page count the label reports, at most
\* 50 result pages are processed and at most 50 page fetches are issued.
C1_AtMostFiftyPages ==
  /\ Len(pageLog) <= PageLimit
  /\ Len(PageFetches) <= PageLimit

\* C2: in every reachable state of the store, after any number of insertRow
\* calls and runs, no two rows have the same council_reference, under
\* insert-or-replace and under insert-or-ignore.
C2_UniqueReference ==
  \A i, j \in 1..Len(store) :
    i # j => store[i].council_reference # store[j].council_reference

\* A later run has written a reference that the table already held.
C2_Witness ==
  /\ run >= 2
  /\ pc = "rows"
  /\ \E i \in 1..Min(Len(handed), Len(console)) :
       handed[i].rec.applicationNumber \in Keys(prevStore)
  /\ Len(store) >= 1

C4_AddressNormal ==
  \A i \in 1..Len(handed) :
    LET address == handed[i].rec.address
        detail == Catalogue[handed[i].item].detail
    IN /\ address # << >>
       /\ NoSpaceRun(address)
       /\ NoSpaceAtEnds(address)
       /\ detail.found
       /\ ~AllSpace(detail.text)

\* A row with an all-blank or missing address has been passed over, and a
\* record whose address had runs of blanks has been handed over.
C4_Witness ==
  /\ pc = "rows"
  /\ \E i \in 1..(rowIdx - 1) :
       /\ i <= Len(page)
       /\ Accepts(RowAt(i))
       /\ (~RowAt(i).detail.found \/ AllSpace(RowAt(i).detail.text))
  /\ \E i \in 1..Len(handed) : ~NoSpaceRun(Catalogue[handed[i].item].detail.text)

C6_ReferenceStartsWithDigit ==
  \A i \in 1..Len(DetailRequests) :
    LET ref == Trim(Catalogue[DetailRequests[i].row].cells[1]) IN
      ref # << >> /\ IsDigit(ref[1])

\* C6 as amended: every row the extractor accepts has an application number
\* that holds a digit somewhere; a cell with no digit is never accepted.
C6_ReferenceHoldsDigit ==
  /\ \A i \in 1..Len(DetailRequests) :
       \E k \in 1..Len(Catalogue[DetailRequests[i].row].cells[1]) :
         IsDigit(Catalogue[DetailRequests[i].row].cells[1][k])
  /\ \A i \in 1..Len(handed) :
       \E k \in 1..Len(handed[i].rec.applicationNumber) :
         IsDigit(handed[i].rec.applicationNumber[k])

\* The row "DA 12/2024" has been accepted and its record handed over, and a
\* row whose first cell has no digit has been passed over.
C6_Witness ==
  /\ \E i \in 1..Len(handed) : handed[i].rec.applicationNumber[1] = "D"
  /\ pc = "rows"
  /\ \E i \in 1..(rowIdx - 1) :
       i <= Len(page) /\ Len(RowAt(i).cells) >= MinCells /\ ~Accepts(RowAt(i))
          /\ ParseDate(Trim(RowAt(i).cells[2])).valid

C8_DefaultsToOne ==
  (TrailingDigits(LabelText(portal.label)) = << >>) =>
    /\ "TypeError" \notin Range(console)
    /\ (pageLog # << >> => pageCount = 1)

\* C9: a row whose received-date cell is no valid date under the strict
\* format D/MM/YYYY is left out: no detail page is requested for it and no
\* record of it is handed to insertRow.
C9_InvalidDateExcluded ==
  /\ \A i \in 1..Len(DetailRequests) :
       LET text == Trim(Catalogue[DetailRequests[i].row].cells[2]) IN
         ParseDate(text).valid /\ text \notin { DateNoSuchDay, DateShortMonth }
  /\ \A i \in 1..Len(handed) :
       LET text == Trim(Catalogue[handed[i].item].cells[2]) IN
         ParseDate(text).valid /\ text \notin { DateNoSuchDay, DateShortMonth }

\* The row dated 31/02/2024 has been passed over.
C9_Witness ==
  /\ pc = "rows"
  /\ \E i \in 1..(rowIdx - 1) :
       /\ i <= Len(page)
       /\ RowAt(i).cells[2] = DateNoSuchDay
       /\ Len(RowAt(i).cells) >= MinCells
       /\ RegexTest(Trim(RowAt(i).cells[1]))

\* C10: for an accepted row [ref, date, _, desc] with a non-empty detail
\* address A the record has applicationNumber = ref trimmed, receivedDate =
\* the date as YYYY-MM-DD, description = desc trimmed when that is not empty,
\* address = A with runs of white space collapsed and ends trimmed; the text
\* of cell 2 has no influence on the record.
C10_RecordOfRow ==
  \A i \in 1..Len(handed) :
    LET rec == handed[i].rec
        row == Catalogue[handed[i].item]
    IN /\ IsTrimOf(rec.applicationNumber, row.cells[1])
       /\ (row.cells[2] = DateJan => rec.receivedDate = IsoJan)
       /\ (row.cells[2] = DateLeap => rec.receivedDate = IsoLeap)
       /\ row.cells[2] \in { DateJan, DateLeap }
       /\ (~AllSpace(row.cells[4]) => IsTrimOf(rec.description, row.cells[4]))
       /\ Words(rec.address) = Words(row.detail.text)
       /\ NoSpaceRun(rec.address) /\ NoSpaceAtEnds(rec.address)
       /\ (row.detail.text = AddrSmith => rec.address = SmithNormal)
       /\ \A text \in { << >>, LotText, AddrSmith } :
            [ MakeRecord([ row EXCEPT !.cells[3] = text ], rec.address, 0)
                EXCEPT !.scrapeDate = rec.scrapeDate ] = rec

\* The row ["10/2024/1", "3/01/2024", "", "Fence"] has been stored, and so has
\* a row whose third cell has text.
C10_Witness ==
  /\ \E i \in 1..Len(store) :
       /\ store[i].council_reference = RefFence
       /\ store[i].date_received = IsoJan
       /\ store[i].address = SmithNormal
       /\ store[i].description = DescFence
  /\ \E i \in 1..Len(handed) : Catalogue[handed[i].item].cells[3] = LotText

\* The lines insertRow has logged for the statements that completed.
InsertLines == SelectSeq(console, LAMBDA l : l \in { "Inserted", "Skipped" })

IsPrefix(a, b) == Len(a) <= Len(b) /\ SubSeq(b, 1, Len(a)) = a

\* The kinds of the requests of the run, in order.
Kinds == [ i \in 1..Len(reqLog) |-> reqLog[i].kind ]

\* The bootstrap and navigation requests of the run, in order.
NavKinds == SelectSeq(Kinds, LAMBDA k : k \notin { "page", "detail" })

NavPlain == << "default", "lists", "select", "tab", "search" >>

NavWithToken == << "default", "token", "lists", "select", "tab", "search" >>

\* C11: for every persisted record, description is "No description provided"
\* exactly when the trimmed text of cell 3 is empty (or is that sentence
\* itself); otherwise it is the trimmed text of cell 3; it is never empty.
C11_DescriptionSentinel ==
  /\ \A i \in 1..Len(handed) :
       LET description == handed[i].rec.description
           cell == Catalogue[handed[i].item].cells[4]
       IN /\ description # << >>
          /\ (description = NoDescription)
               <=> (AllSpace(cell) \/ IsTrimOf(NoDescription, cell))
          /\ (~AllSpace(cell) => IsTrimOf(description, cell))
  /\ \A i \in 1..Len(store) : store[i].description # << >>

\* A row with a blank description cell has been stored with the sentence, and
\* a row with a description has been stored with its trimmed text.
C11_Witness ==
  /\ \E i \in 1..Len(store) : store[i].description = NoDescription
  /\ \E i \in 1..Len(handed) :
       /\ Catalogue[handed[i].item].cells[4] = DescBlank
       /\ handed[i].rec.description = NoDescription
  /\ \E i \in 1..Len(store) : store[i].description = << "S","h","e","d" >>

\* C12: every navigation or pagination POST carries as __EVENTVALIDATION and
\* __VIEWSTATE the pair extracted from the response of the navigation or
\* pagination request just before it, and never an older or a mixed pair.
C12_TokensOfLastResponse ==
  \A i \in 1..Len(reqLog) :
    reqLog[i].kind \in { "select", "tab", "search", "page" } =>
      \E j \in 1..(i - 1) :
        /\ reqLog[j].kind # "detail"
        /\ \A k \in (j + 1)..(i - 1) : reqLog[k].kind = "detail"
        /\ reqLog[j].kind \in { "lists", "select", "tab", "search", "page" }
        /\ reqLog[i].eventValidation = << "ev", j >>
        /\ reqLog[i].viewState = << "vs", j >>

\* A run has posted for page 3 after the detail pages of page 2, and is done.
C12_Witness ==
  /\ pc = "done"
  /\ \E i \in 2..Len(reqLog) :
       /\ reqLog[i].kind = "page" /\ reqLog[i].page = 3
       /\ reqLog[i - 1].kind = "detail"

\* C13: the requests of a run come in the order GET default page, (GET with
\* the js token), GET enquiry lists, POST select, POST tab, POST date search,
\* then pagination; no detail request, page-indexed POST or insertRow call
\* comes before the answer to the date search; no step is skipped or repeated.
C13_FixedOrder ==
  /\ IsPrefix(NavKinds, NavPlain) \/ IsPrefix(NavKinds, NavWithToken)
  /\ \A i \in 1..Len(reqLog) :
       Kinds[i] \in { "page", "detail" } =>
         /\ i > Len(NavKinds)
         /\ NavKinds \in { NavPlain, NavWithToken }
  /\ (handed # << >> \/ pageLog # << >> \/ pc \in { "rows", "insert", "postPage", "done" }) =>
       /\ NavKinds \in { NavPlain, NavWithToken }
       /\ pc \notin { "start", "getDefault", "getToken", "getLists", "postSelect",
                      "postTab", "postSearch" }

\* A run with the js token step, a detail page and a second page is done.
C13_Witness ==
  /\ pc = "done"
  /\ NavKinds = NavWithToken
  /\ \E i \in 1..Len(reqLog) : Kinds[i] = "detail"
  /\ \E i \in 1..Len(reqLog) : Kinds[i] = "page"
  /\ Len(store) >= 1

\* A record handed to insertRow whose statement is over without a line of
\* insertRow's log: the statement failed.
InsertFailed == pc # "insert" /\ Len(handed) > Len(InsertLines)

\* An error has been printed that is not the error of a statement: a request
\* of the run failed.
RequestFailed == "error" \in Range(console) /\ ~InsertFailed

\* C14: if a request of a run fails, the run aborts: the request is not
\* retried, no further request is issued, no further insertRow call is made
\* and "Complete." is not printed; the rows persisted before stay in the store.
C14_RequestFailureAborts ==
  /\ [](RequestFailed => (pc = "failed" /\ "Complete." \notin Range(console)))
  /\ [][RequestFailed =>
          (reqLog' = reqLog /\ handed' = handed /\ store' = store /\ console' = console)]_vars
  /\ [][(RequestFailed' /\ ~RequestFailed) =>
          (store' = store /\ handed' = handed /\ Len(reqLog') = Len(reqLog) + 1)]_vars

\* The request for a detail page has failed after a row was persisted, with
\* rows of the page still to come.
C14_Witness ==
  /\ RequestFailed
  /\ pc = "failed"
  /\ Len(store) >= 1
  /\ reqLog[Len(reqLog)].kind = "detail"
  /\ rowIdx <= Len(page)

\* C15: if insertRow fails for a record, the error is logged and the run
\* aborts: no later row or page is processed, no further request is issued
\* and "Complete." is not printed.
C15_InsertFailureAborts ==
  /\ [](InsertFailed =>
          /\ pc = "failed"
          /\ console # << >> /\ console[Len(console)] = "error"
          /\ "Complete." \notin Range(console))
  /\ [][InsertFailed =>
          UNCHANGED << reqLog, handed, store, console, pageLog, rowIdx, pageNumber >>]_vars

\* The statement for the first row of a page has failed with another row of
\* the page and another page still to come.
C15_Witness ==
  /\ InsertFailed
  /\ pc = "failed"
  /\ rowIdx < Len(page)
  /\ pageNumber <= pageCount

ErrorPrinted == "error" \in Range(console) \/ "TypeError" \in Range(console)

\* C16 as stated: a run ends either in success, "Complete." printed after
\* every step succeeded, or in failure, the error printed and the process
\* ended with a status that is not the status of success.
C16_FailureStatus ==
  Terminated =>
    \/ /\ pc = "done"
       /\ "Complete." \in Range(console) /\ ~ErrorPrinted
       /\ ExitCode = 0
    \/ /\ pc = "failed"
       /\ ErrorPrinted /\ "Complete." \notin Range(console)
       /\ ExitCode # 0

\* C16 as amended: a run ends either in success, "Complete." printed after
\* every step succeeded, or in failure, the error printed and "Complete."
\* not; the process ends with exit code 0 in both, so the two outcomes differ
\* in what is printed and not in the status.
C16_OutcomeByOutput ==
  /\ Terminated =>
       \/ /\ pc = "done"
          /\ "Complete." \in Range(console) /\ ~ErrorPrinted
          /\ ExitCode = 0
       \/ /\ pc = "failed"
          /\ ErrorPrinted /\ "Complete." \notin Range(console)
          /\ ExitCode = 0
  /\ ~Terminated => ExitCode = -1
  /\ ("Complete." \in Range(console)) => (pc = "done" /\ ~ErrorPrinted)
  /\ (RequestFailed \/ InsertFailed) => pc = "failed"

\* A run has ended after a failed statement, and its exit code is 0.
C16_Witness ==
  /\ Terminated
  /\ InsertFailed
  /\ Len(store) >= 1
  /\ ExitCode = 0

\* Number of HTTP requests main() has started and is waiting for.
RequestsInFlight == Len(Awaited)

\* Number of database statements issued and not completed: the create-table
\* statement of initializeDatabase and the statement of insertRow.
WritesInFlight ==
  (IF createPending THEN 1 ELSE 0) + (IF pc = "insert" THEN 1 ELSE 0)

\* C17: at every point of a run at most one operation is in flight: no HTTP
\* request is started while another request or a database write, the
\* create-table statement of initializeDatabase included, is pending, and no
\* write is started while a request or another write is pending.
C17_OneInFlight == RequestsInFlight + WritesInFlight <= 1

\* The dates the clock can show during the behaviour, as scrapeDate texts.
ClockDates == { FormatISO(DayAt(k)) : k \in 0..MaxDay }

\* C18 as stated: all records persisted during one run carry the same
\* scrapeDate, the date on which the run started, even when the date has
\* changed while the run was processing rows.
C18_ScrapeDateOfLaunch ==
  \A i \in 1..Len(handed) : handed[i].rec.scrapeDate = FormatISO(StartDate)

\* C18 as amended: every record carries as scrapeDate the date the clock
\* shows when the record is built, so the scrapeDates of a run never
\* decrease, and they differ when midnight passes between two records.
C18_ScrapeDateOfWrite ==
  /\ \A i \in 1..Len(handed) :
       /\ handed[i].rec.scrapeDate \in ClockDates
       /\ IsoOrdinal(handed[i].rec.scrapeDate) >= IsoOrdinal(FormatISO(StartDate))
  /\ \A i \in 1..(Len(handed) - 1) :
       IsoOrdinal(handed[i].rec.scrapeDate) <= IsoOrdinal(handed[i + 1].rec.scrapeDate)
  /\ handed # << >> =>
       handed[Len(handed)].rec.scrapeDate = FormatISO(DayAt(today))

\* Two records of one run have been stored, the second after midnight.
C18_Witness ==
  /\ Len(store) = 2
  /\ Len(handed) = 2
  /\ handed[1].rec.scrapeDate = FormatISO(StartDate)
  /\ handed[2].rec.scrapeDate = FormatISO(NextDay(StartDate))
  /\ store[1].date_scraped # store[2].date_scraped

Scanned ==
  SubSeq(portal.listing, 1,
         Min(Max(0, pageNumber - 2) * portal.pageSize, Len(portal.listing)))
    \o SubSeq(page, 1, Min(rowIdx - 1, Len(page)))

\* The catalogue rows with at least four cells, a digit in the first cell and
\* a calendar date in the second.
Qualifies(item) ==
  LET cells == Catalogue[item].cells IN
    /\ Len(cells) >= 4
    /\ \E i \in 1..Len(cells[1]) : IsDigit(cells[1][i])
    /\ \E t \in { DateJan, DateLeap } : IsTrimOf(t, cells[2])

\* The catalogue positions of the rows the detail requests were for, in order.
DetailItems == [ i \in 1..Len(DetailRequests) |-> DetailRequests[i].row ]

\* C21: a detail-page POST is issued for a table row exactly when the row has
\* at least 4 td cells, a digit in its trimmed cell 0 and a valid date under
\* strict D/MM/YYYY in its trimmed cell 1; one POST per such row and none for
\* any other row.
C21_DetailPerQualifyingRow ==
  \/ DetailItems = SelectSeq(Scanned, Qualifies)
  \/ /\ pc \in { "insert", "failed" }
     /\ rowIdx \in 1..Len(page)
     /\ DetailItems = SelectSeq(Scanned \o << page[rowIdx] >>, Qualifies)

\* The row loop has gone through a row with four cells that got its detail
\* request and a row with three cells that got none.
C21_Witness ==
  /\ pc = "done"
  /\ Len(Scanned) = 2
  /\ \E i \in 1..Len(Scanned) : Len(Catalogue[Scanned[i]].cells) < 4
  /\ \E i \in 1..Len(Scanned) : Len(Catalogue[Scanned[i]].cells) = 4 /\ Qualifies(Scanned[i])
  /\ Len(DetailRequests) = 1

\* C22: the bootstrap issues one GET of the default page, followed by one GET
\* of the same URL with ?js=<token> exactly when parseToken found a token in
\* that page; the answer to the token GET is discarded and supplies no tokens.
C22_TokenGetIffToken ==
  /\ Cardinality({ i \in 1..Len(reqLog) : Kinds[i] = "default" }) <= 1
  /\ Cardinality({ i \in 1..Len(reqLog) : Kinds[i] = "token" }) <= 1
  /\ reqLog # << >> => Kinds[1] = "default"
  /\ \A i \in 1..Len(reqLog) : Kinds[i] = "token" => (i = 2 /\ (Token # Null))
  /\ Len(reqLog) >= 2 => Kinds[2] = (IF (Token # Null) THEN "token" ELSE "lists")
  /\ pc \in { "getToken", "getLists" } => tokens = << << "ev", 1 >>, << "vs", 1 >> >>
  /\ \A i \in 1..Len(reqLog) :
       ((Token # Null) /\ Kinds[i] \in { "select", "tab", "search", "page" }) =>
         /\ reqLog[i].eventValidation # << "ev", 2 >>
         /\ reqLog[i].viewState # << "vs", 2 >>

\* A run with the token GET between the default page and the enquiry lists
\* is done.
C22_Witness ==
  /\ pc = "done"
  /\ (Token # Null)
  /\ Len(reqLog) >= 6
  /\ Kinds[1] = "default" /\ Kinds[2] = "token" /\ Kinds[3] = "lists"
  /\ reqLog[4].eventValidation = << "ev", 3 >>

\* The value a POST carries for a hidden input read from response j.
Carried(name, j) ==
  IF portal.hidden = "both" \/ portal.hidden = name THEN << name, j >> ELSE Undefined

\* C23: when a response lacks __EVENTVALIDATION or __VIEWSTATE the navigator
\* and the paginator do not abort or raise on that account: the next POST is
\* issued with the undefined value for the field that is missing.
C23_MissingTokensTolerated ==
  /\ \A i \in 1..Len(reqLog) :
       Kinds[i] \in { "select", "tab", "search", "page" } =>
         \E j \in 1..(i - 1) :
           /\ Kinds[j] # "detail"
           /\ \A k \in (j + 1)..(i - 1) : Kinds[k] = "detail"
           /\ reqLog[i].eventValidation = Carried("ev", j)
           /\ reqLog[i].viewState = Carried("vs", j)
  /\ "TypeError" \in Range(console) => TrailingDigits(LabelText(portal.label)) = << >>
  /\ pc = "failed" => ErrorPrinted

\* A run against a portal without hidden inputs has posted for page 2 with
\* undefined values and is done, with a row stored.
C23_Witness ==
  /\ pc = "done"
  /\ portal.hidden = "none"
  /\ Len(store) >= 1
  /\ \E i \in 1..Len(reqLog) :
       /\ Kinds[i] = "page"
       /\ reqLog[i].eventValidation = Undefined
       /\ reqLog[i].viewState = Undefined

\* C24: the page counter starts at 1 and is incremented before the rows of a
\* page are extracted, so while page k is processed it is k+1; a page-indexed
\* POST uses it as PageNumber and as the suffix of the pageButton target, and
\* successive page-indexed POSTs ask for consecutive pages from 2 on.
C24_CounterOneAhead ==
  /\ \A k \in 1..Len(pageLog) : pageLog[k] = k
  /\ pc \in { "rows", "insert", "postPage" } => pageNumber = Len(pageLog) + 1
  /\ \A i \in 1..Len(PagePosts) :
       /\ PagePosts[i].page = i + 1
       /\ PagePosts[i].target = PagePosts[i].page
  /\ pc = "postPage" => Len(PagePosts) = pageNumber - 2
  /\ \A i \in 1..Len(DetailRequests) : DetailRequests[i].page \in 1..Len(pageLog)

\* A run over three pages is done: it posted for page 2 and for page 3.
C24_Witness ==
  /\ pc = "done"
  /\ pageLog = << 1, 2, 3 >>
  /\ Len(PagePosts) = 2
  /\ PagePosts[2].page = 3 /\ PagePosts[2].target = 3

C26_Terminates ==
  <>( \/ (pc = "done" /\ "Complete." \in Range(console))
      \/ (pc = "failed" /\ ErrorPrinted) )

\* A run over three pages with a stored row has ended with "Complete.".
C26_Witness ==
  /\ pc = "done"
  /\ Len(pageLog) = 3
  /\ Len(store) >= 1
  /\ "Complete." \in Range(console)

\* C27: a successful insertRow call logs one line, "Inserted" exactly when
\* the council reference was absent from the store before the call and
\* "Skipped" exactly when it was present, under insert-or-replace as under
\* insert-or-ignore.
C27_LogTellsPresence ==
  /\ Len(InsertLines) <= Len(handed)
  /\ \A i \in 1..Len(InsertLines) :
       LET key == handed[i].rec.applicationNumber
           present == \/ key \in Keys(prevStore)
                      \/ \E j \in 1..(i - 1) : handed[j].rec.applicationNumber = key
       IN InsertLines[i] = (IF present THEN "Skipped" ELSE "Inserted")

\* C28: every statement insertRow prepares is finalized before the next
\* operation of the run begins, on the success path and on the error path:
\* no call resolves or rejects with its statement not finalized.
C28_StatementsFinalized == pc # "insert" => Finalized = Prepared

\* The row of the table with the given council reference.
RowOfKey(table, key) == CHOOSE r \in Range(table) : r.council_reference = key

\* The insertRow calls of this run that completed for the given reference.
Writes(key) ==
  { i \in 1..Len(InsertLines) : handed[i].rec.applicationNumber = key }

SameContent(row, rec) ==
  /\ row.council_reference = rec.applicationNumber
  /\ row.address = rec.address
  /\ row.description = rec.description
  /\ row.info_url = rec.informationUrl
  /\ row.comment_url = rec.commentUrl
  /\ row.date_scraped = rec.scrapeDate
  /\ row.date_received = rec.receivedDate

HasAddress(item) ==
  Catalogue[item].detail.found /\ ~AllSpace(Catalogue[item].detail.text)

\* The catalogue positions of the rows handed to insertRow, in order.
HandedItems == [ i \in 1..Len(handed) |-> handed[i].item ]

\* C30: an accepted row with a non-empty address is handed to insertRow once,
\* right after its own detail response and before the detail request of the
\* next row; the calls come in document order within a page and in ascending
\* page order, and the rows of page k are persisted before the POST for page
\* k+1 is issued.
C30_HandedInOrder ==
  /\ \A i, j \in 1..Len(handed) :
       i < j => \/ handed[i].page < handed[j].page
                \/ (handed[i].page = handed[j].page /\ handed[i].row < handed[j].row)
  /\ \/ HandedItems = SelectSeq(DetailItems, HasAddress)
     \/ /\ pc = "failed"
        /\ DetailItems # << >>
        /\ HandedItems = SelectSeq(SubSeq(DetailItems, 1, Len(DetailItems) - 1), HasAddress)
  /\ pc = "insert" =>
       /\ Len(handed) = Len(InsertLines) + 1
       /\ reqLog[Len(reqLog)].kind = "detail"
       /\ reqLog[Len(reqLog)].row = handed[Len(handed)].item
  /\ pc \in { "rows", "postPage", "done" } => Len(handed) = Len(InsertLines)
  /\ \A i \in 1..Len(InsertLines) : handed[i].rec.applicationNumber \in Keys(store)
  /\ \A i \in 1..Len(reqLog) : \A j \in 1..Len(handed) :
       (Kinds[i] = "page" /\ handed[j].page >= reqLog[i].page) =>
         \E k \in (i + 1)..Len(reqLog) :
           Kinds[k] = "detail" /\ reqLog[k].row = handed[j].item

\* A row of page 1 and then a row of page 2 have been persisted, in that order.
C30_Witness ==
  /\ pc = "done"
  /\ Len(handed) = 2
  /\ Len(InsertLines) = 2
  /\ handed[1].page = 1 /\ handed[2].page = 2
  /\ Len(PagePosts) >= 1

\* C31: one cookie jar is created per run and every HTTP request of the run,
\* the bootstrap GETs, the navigation POSTs, the page-indexed POSTs and every
\* detail-page POST, is issued with that jar; no request uses a fresh or a
\* different jar.
C31_OneJar ==
  \A i \in 1..Len(reqLog) :
    /\ reqLog[i].jar = Jar
    /\ \A j \in 1..Len(reqLog) : reqLog[j].jar = reqLog[i].jar

\* A second launch has issued requests of every kind, ending with the detail
\* pages of its second result page.
C31_Witness ==
  /\ run = 2
  /\ pc = "done"
  /\ { "default", "token", "lists", "select", "tab", "search", "page", "detail" }
       \subseteq Range(Kinds)
  /\ reqLog[Len(reqLog)].kind = "detail"

\* A step that issues a detail-page request.
DetailStep ==
  /\ Len(reqLog') = Len(reqLog) + 1
  /\ reqLog'[Len(reqLog')].kind = "detail"

\* The detail requests carry no hidden field, and a page-indexed POST carries
\* the pair of the last search or page response before it.
DetailsSendNothing ==
  \A i \in 1..Len(reqLog) :
    /\ Kinds[i] = "detail" =>
         /\ reqLog[i].eventValidation = Undefined
         /\ reqLog[i].viewState = Undefined
    /\ Kinds[i] = "page" =>
         \E j \in 1..(i - 1) :
           /\ Kinds[j] \in { "search", "page" }
           /\ \A k \in (j + 1)..(i - 1) : Kinds[k] = "detail"
           /\ reqLog[i].eventValidation = Carried("ev", j)
           /\ reqLog[i].viewState = Carried("vs", j)

\* C32: a call to retrieveFullAddress sends no __EVENTVALIDATION and no
\* __VIEWSTATE and leaves the token pair, the page counter, the page count
\* and the rows of the current result page unchanged, so the next
\* page-indexed POST carries the tokens of the current result page however
\* many detail pages were fetched in between.
C32_DetailInvisible ==
  [][ /\ DetailStep => /\ tokens' = tokens
                       /\ pageNumber' = pageNumber
                       /\ pageCount' = pageCount
                       /\ page' = page
      /\ DetailsSendNothing /\ DetailsSendNothing' ]_vars

\* A page-indexed POST has followed two detail-page requests in a row.
C32_Witness ==
  \E i \in 3..Len(reqLog) :
    /\ Kinds[i] = "page"
    /\ Kinds[i - 1] = "detail"
    /\ Kinds[i - 2] = "detail"

\* The number each label reports, 1 where it reports less.
AtLeastOne ==
  [ label \in LabelPool \cup RerunLabelPool \cup LongLabelPool |->
      Max(1, ToNumber(TrailingDigits(LabelText(label)))) ]

\* The page count is that of the first label, at least 1, and the run
\* processes that many pages.
CountOfLabel ==
  /\ pageLog = << >> => pageCount = 0
  /\ pageLog # << >> => (pageCount >= 1 /\ pageCount = AtLeastOne[portal.label])
  /\ pc = "done" => Len(pageLog) = pageCount

\* C33: the page count is read once, from the response of the date search,
\* and is at least 1 for the rest of the run: a label that reports 0 pages
\* counts as 1 page, and the labels of later result pages never change the
\* number of pages the run processes.
C33_CountReadOnce ==
  [][ /\ pageCount' # pageCount =>
           /\ Len(reqLog') = Len(reqLog) + 1
           /\ reqLog'[Len(reqLog')].kind = "search"
      /\ CountOfLabel /\ CountOfLabel' ]_vars

\* A label that reports 0 pages over a listing that fills two pages: the run
\* has processed one page and is done.
C33_Witness ==
  /\ pc = "done"
  /\ Reported = 0
  /\ pageCount = 1
  /\ Len(pageLog) = 1
  /\ Len(portal.listing) = 2
  /\ portal.pageSize = 1

\* The trimmed text of the received-date cell of each catalogue row with at
\* least two cells.
DateCell ==
  [ i \in 1..Len(Catalogue) |->
      IF Len(Catalogue[i].cells) >= 2 THEN Trim(Catalogue[i].cells[2]) ELSE << >> ]

\* The ISO text t names the day, the month and the year that the cell text c
\* writes as day/month/year.
RendersCell(t, c) ==
  /\ IsISODate(t)
  /\ Len(c) >= 9
  /\ ToNumber(SubSeq(t, 1, 4)) = ToNumber(SubSeq(c, Len(c) - 3, Len(c)))
  /\ ToNumber(SubSeq(t, 6, 7)) = ToNumber(SubSeq(c, Len(c) - 6, Len(c) - 5))
  /\ ToNumber(SubSeq(t, 9, 10)) = ToNumber(SubSeq(c, 1, Len(c) - 8))

\* C34: no persisted record has an empty receivedDate: the validity of the
\* date is part of the acceptance test, so the empty-string branch of the
\* receivedDate expression is never taken and every stored receivedDate is
\* the YYYY-MM-DD rendering of the date in cell 1 of its row.
C34_ReceivedNeverEmpty ==
  /\ \A i \in 1..Len(handed) :
       /\ handed[i].rec.receivedDate # << >>
       /\ RendersCell(handed[i].rec.receivedDate, DateCell[handed[i].item])
  /\ \A i \in 1..Len(store) :
       /\ store[i].date_received # << >>
       /\ IsISODate(store[i].date_received)

\* A row whose cell reads "3/01/2024" is stored with "2024-01-03", next to a
\* row stored with "2024-02-29".
C34_Witness ==
  /\ Len(store) = 2
  /\ store[1].date_received = << "2","0","2","4","-","0","1","-","0","3" >>
  /\ store[2].date_received = << "2","0","2","4","-","0","2","-","2","9" >>

\* The positions, counted from 0, at which the marker ".aspx?js=" occurs.
MarkerPlaces(text) ==
  { p \in 0..(Len(text) - Len(Marker)) : SubSeq(text, p + 1, p + Len(Marker)) = Marker }

Least(S) == CHOOSE k \in S : \A j \in S : k <= j

\* The characters between the marker at place p and the first single or
\* double quote behind it, or Null when the quote comes first or not at all.
RunBehind(text, p) ==
  LET after == p + Len(Marker)
      quotes == { q \in (after + 1)..Len(text) : text[q] \in { "'", "\"" } }
  IN IF quotes # { } /\ Least(quotes) > after + 1
       THEN SubSeq(text, after + 1, Least(quotes) - 1)
       ELSE Null

\* The token of a script by its first marker.
ByFirstMarker(text) ==
  IF MarkerPlaces(text) = { } THEN Null ELSE RunBehind(text, Least(MarkerPlaces(text)))

\* The token of a script by the first of its markers that has a non-empty run
\* and a quote behind it.
ByAnyMarker(text) ==
  LET good == { p \in MarkerPlaces(text) : RunBehind(text, p) # Null }
  IN IF good = { } THEN Null ELSE RunBehind(text, Least(good))

\* The token of the first script, in document order, that has one.
FirstToken(found) ==
  LET have == { i \in 1..Len(found) : found[i] # Null }
  IN IF have = { } THEN Null ELSE found[Least(have)]

ExpectedByFirstMarker ==
  [ scripts \in ScriptPages |->
      FirstToken([ i \in 1..Len(scripts) |-> ByFirstMarker(scripts[i]) ]) ]

ExpectedByAnyMarker ==
  [ scripts \in ScriptPages |->
      FirstToken([ i \in 1..Len(scripts) |-> ByAnyMarker(scripts[i]) ]) ]

\* What the run shows of parseToken's answer: the token page is asked for,
\* with the expected token, exactly when a token is expected.
TokenIs(expected) ==
  /\ pc = "getToken" => expected # Null
  /\ (pc = "getLists" /\ Len(reqLog) = 1) => expected = Null
  /\ (Len(reqLog) >= 2 /\ expected # Null) => Kinds[2] = "token"
  /\ \A i \in 1..Len(reqLog) :
       Kinds[i] = "token" => (expected # Null /\ reqLog[i].token = expected)

\* C35 as stated: parseToken returns, for the first script block that
\* contains the marker ".aspx?js=" followed by a non-empty run of characters
\* and then a single or double quote, the characters between that marker and
\* the quote, and null when no block qualifies.
C35_TokenOfAnyMarker == TokenIs(ExpectedByAnyMarker[portal.scripts])

\* C35: parseToken looks at the first occurrence of the marker in each script
\* block only: it returns the characters between that occurrence and the
\* first quote behind it for the first block in which they are not empty, and
\* null when there is no such block; a block whose first marker has a quote
\* right behind it, or no quote behind it, is skipped in favour of later
\* blocks, whatever follows a later marker of the same block.
C35_TokenOfFirstMarker == TokenIs(ExpectedByFirstMarker[portal.scripts])

\* The default page has a script with the marker twice, the token behind the
\* second, and then a script with token "ab": the token page is asked for
\* with "ab".
C35_Witness ==
  /\ Len(portal.scripts) = 2
  /\ portal.scripts[1] = ScriptTwice
  /\ Len(reqLog) >= 2
  /\ Kinds[2] = "token"
  /\ reqLog[2].token = << "a", "b" >>

====
